---- MODULE Spec2Model ----
(***************************************************************************)
(* Model of scripts/kokoro_worker.py: a persistent text-to-speech worker   *)
(* speaking JSON lines over stdin/stdout.                                  *)
(*                                                                         *)
(* Conventions of the model                                                *)
(*   - a Python str is a sequence of one-character strings;                *)
(*   - a JSON number is an integer count of tenths (7 is 0.7, 50 is 5.0);  *)
(*   - an audio sample s is the integer m with s = m / 131068, so that     *)
(*     s * 32767 = m / 4: a scaled sample has a fraction of 0, 1/4, 1/2    *)
(*     or 3/4;                                                             *)
(*   - the synthesis engine (kokoro.KPipeline) is an external collaborator:*)
(*     what its constructor and its call do is an input of each request.   *)
(***************************************************************************)
EXTENDS Integers, Sequences, FiniteSets, TLC

VARIABLES
    pc,           \* position of main(): "arbiter", "import", "loop", "exit0", "exit1", "crashed"
    fd1,          \* where the process's descriptor 1 points: "primary" or "diag"
    json_out,     \* the private handle on the original stdout: [buf, chan]
    stderr,       \* what eprint wrote to the diagnostic channel
    pipelines,    \* the engine cache: normalized lang_code -> engine instance
    rid,          \* main's local rid, which survives from one iteration to the next
    nlines,       \* number of input lines read from sys.stdin
    nonblank,     \* line numbers of the lines read that are not whitespace only, in order
    nConstructed, \* number of KPipeline instances constructed so far
    ctorFailed,   \* whether some KPipeline construction has raised so far
    wfailed,      \* whether some write to json_out has raised so far
    acquired,     \* language codes of the requests so far with a text and a speed that converts
    textLangs,    \* language codes of the requests so far with a text
    line,         \* the line the for statement has read last
    last,         \* record of the last iteration: its line, the engine's behaviour, what happened
    arbiter,      \* how the descriptor set-up went: "none", "dup failed", "redirected", "degraded"
    engine_out,   \* the channels that writes of the engine library to descriptor 1 have reached
    enc           \* a call of wav_bytes_from_float32_mono on its own: arguments and result

vars == <<pc, fd1, json_out, stderr, pipelines, rid, nlines, nonblank,
          nConstructed, ctorFailed, wfailed, acquired, textLangs, line, last,
          arbiter, engine_out, enc>>

\* Number of input lines the parent process sends before end-of-input.
MaxLines == 2

-----------------------------------------------------------------------------
(* Python values *)

\* Every value is a record [t, s, n]: its type, its characters (str), its tenths (num).
None == [t |-> "none", s |-> <<>>, n |-> 0]
S(s) == [t |-> "str", s |-> s, n |-> 0]
N(n) == [t |-> "num", s |-> <<>>, n |-> n]
L == [t |-> "list", s |-> <<>>, n |-> 0]       \* the JSON array [1]

Whitespace == {" ", "\n", "\t"}

RECURSIVE lstrip(_)
lstrip(s) == IF s # <<>> /\ Head(s) \in Whitespace THEN lstrip(Tail(s)) ELSE s

RECURSIVE rstrip(_)
rstrip(s) ==
    IF s # <<>> /\ s[Len(s)] \in Whitespace THEN rstrip(SubSeq(s, 1, Len(s) - 1)) ELSE s

\* str.strip()
strip(s) == rstrip(lstrip(s))

\* Truth value of a Python object, as `x or d` tests it.
Truthy(v) ==
    CASE v.t = "none" -> FALSE
      [] v.t = "str"  -> v.s # <<>>
      [] v.t = "num"  -> v.n # 0
      [] v.t = "list" -> TRUE

\* x or d
Or(v, d) == IF Truthy(v) THEN v ELSE d

Digits == <<"0", "1", "2", "3", "4", "5", "6", "7", "8", "9">>

\* str(x) of a float written with one decimal, 0.0 <= x < 10.0
StrOfNum(n) == <<Digits[(n \div 10) + 1], ".", Digits[(n % 10) + 1]>>

\* str(v)
PyStr(v) ==
    CASE v.t = "str"  -> v.s
      [] v.t = "num"  -> StrOfNum(v.n)
      [] v.t = "list" -> <<"[", "1", "]">>
      [] v.t = "none" -> <<"N", "o", "n", "e">>

DigitValue(c) == CHOOSE d \in 0..9 : Digits[d + 1] = c

RECURSIVE IntOfDigits(_)
IntOfDigits(s) ==
    IF s = <<>> THEN 0 ELSE 10 * IntOfDigits(SubSeq(s, 1, Len(s) - 1)) + DigitValue(s[Len(s)])

IsDigits(s) == s # <<>> /\ \A i \in 1..Len(s) : \E d \in 1..10 : Digits[d] = s[i]

\* Mutant of PyFloat: what does not convert counts as 1.0.
PyFloatLenient(v) ==
    IF v.t = "num" THEN [ok |-> TRUE, n |-> v.n]
    ELSE IF v.t = "str" /\ IsDigits(strip(v.s))
    THEN [ok |-> TRUE, n |-> 10 * IntOfDigits(strip(v.s))]
    ELSE [ok |-> TRUE, n |-> 10]

\* float(v): [ok, n] or [ok, exc]. Of the str forms float() accepts, the inputs
\* of the model only use unsigned digit strings (surrounding whitespace allowed).
PyFloat(v) ==
    CASE v.t = "num"  -> [ok |-> TRUE, n |-> v.n]
      [] v.t = "str"  ->
            IF IsDigits(strip(v.s))
            THEN [ok |-> TRUE, n |-> 10 * IntOfDigits(strip(v.s))]
            ELSE [ok |-> FALSE, exc |-> "could not convert string to float"]
      [] v.t = "list" ->
            [ok |-> FALSE, exc |-> "float() argument must be a string or a real number"]
      [] v.t = "none" ->
            [ok |-> FALSE, exc |-> "float() argument must be a string or a real number"]

-----------------------------------------------------------------------------
(* Inputs: the lines on stdin and the behaviour of the engine *)

Absent == [t |-> "absent", s |-> <<>>, n |-> 0]    \* the key is not in the object

Fields == {"id", "text", "voice", "lang_code", "speed"}

\* The values each field of a request object takes in the model.
FieldValues ==
    [id        |-> {Absent, S(<<"r", "1">>), S(<<"r", "2">>), N(50)},
     text      |-> {Absent, S(<<" ">>), S(<<"h", "i">>), N(50)},
     voice     |-> {Absent, S(<<" ", "v", " ">>), L},
     lang_code |-> {Absent, S(<<" ">>), S(<<"b">>), S(<<" ", "b", " ">>), N(50)},
     speed     |-> {Absent, N(0), N(3), N(7), N(10), N(12), N(50),
                    S(<<"f", "a", "s", "t">>), S(<<"5">>), L}]

\* {"id": "r1", "text": "hi"}
BaseRequest ==
    [id |-> S(<<"r", "1">>), text |-> S(<<"h", "i">>), voice |-> Absent,
     lang_code |-> Absent, speed |-> Absent]

\* {}
EmptyObject == [f \in Fields |-> Absent]

\* The objects that differ from r in at most one field.
OneFieldFrom(r) ==
    UNION {{[r EXCEPT ![f] = v] : v \in FieldValues[f]} : f \in Fields}

\* Request objects that differ from BaseRequest in at most one field, or that
\* have an absent or whitespace-only text and differ in at most one other field.
Requests ==
    OneFieldFrom(BaseRequest)
        \cup OneFieldFrom([BaseRequest EXCEPT !.text = Absent])
        \cup OneFieldFrom([BaseRequest EXCEPT !.text = S(<<" ">>)])

\* A line of stdin is whitespace only ("ws", with its characters), not JSON
\* ("garbage"), the JSON array [1] ("array") or a JSON object ("object", with
\* its fields).
Lines ==
    {[kind |-> "ws", ws |-> w, f |-> EmptyObject] : w \in {<<"\n">>, <<" ", "\t", "\n">>}}
        \cup {[kind |-> k, ws |-> <<>>, f |-> EmptyObject] : k \in {"garbage", "array"}}
        \cup {[kind |-> "object", ws |-> <<>>, f |-> r] : r \in Requests}

\* A chunk the engine yields: (graphemes, phonemes, audio), audio being None or
\* an array of samples.
NoAudio == [none |-> TRUE, a |-> <<>>]
Audio(a) == [none |-> FALSE, a |-> a]

\* What the engine does when called: it raises, or yields these chunks.
CallBehaviours ==
    {[raises |-> TRUE, chunks |-> <<>>],
     [raises |-> FALSE, chunks |-> <<>>],
     [raises |-> FALSE, chunks |-> <<NoAudio>>],
     [raises |-> FALSE, chunks |-> <<Audio(<<65534>>), NoAudio, Audio(<<-196602, 7>>)>>]}

\* What KPipeline(...) does: pref is the outcome of the two-argument form,
\* fallback that of the one-argument form: "ok", "TypeError" or "error".
CtorBehaviours ==
    {[pref |-> "ok", fallback |-> "ok"],
     [pref |-> "error", fallback |-> "ok"],
     [pref |-> "TypeError", fallback |-> "ok"],
     [pref |-> "TypeError", fallback |-> "error"]}

DefaultEng ==
    [ctor |-> [pref |-> "ok", fallback |-> "ok"], call |-> [raises |-> FALSE, chunks |-> <<>>]]

-----------------------------------------------------------------------------
(* wav_bytes_from_float32_mono *)

SampleRate == 24000

\* np.clip(a, -1.0, 1.0) of one sample
clip(m) == IF m < -131068 THEN -131068 ELSE IF m > 131068 THEN 131068 ELSE m

\* Mutant of astype_int16: the cast rounds down (floor) instead of toward zero.
astype_int16Floor(m) == m \div 4

\* (a * 32767.0).astype(np.int16) of one sample: the cast drops the fraction
astype_int16(m) == IF m >= 0 THEN m \div 4 ELSE -((-m) \div 4)

\* The WAV container: header fields, then the frames.
wav_bytes_from_float32_mono(audio, sample_rate) ==
    LET rate == IF sample_rate <= 0 THEN 24000 ELSE sample_rate
        pcm  == IF Len(audio) = 0 THEN <<>>
                ELSE [i \in 1..Len(audio) |-> astype_int16(clip(audio[i]))]
    IN  <<"RIFF", 1, 2, rate, Len(pcm)>> \o pcm

\* base64.b64encode(b).decode("ascii"): no output for no input, and an
\* encoding of each byte otherwise.
b64encode(b) == [i \in 1..Len(b) |-> <<"b64", b[i]>>]

-----------------------------------------------------------------------------
(* get_pipeline *)

NoException == ""

\* An engine instance: the language code it is bound to and the serial number
\* of its construction.
KPipeline(lang_code, serial) == [lang |-> lang_code, serial |-> serial]

\* get_pipeline(lang_code) on the cache `cache`, nc instances having been
\* constructed before, ctor telling what the constructor does. The result
\* gives the instance p or the exception exc, the cache and the count
\* afterwards, and the constructor calls made, in order.
\* Mutant of IsTypeError: any exception of the preferred form leads to the fallback.
IsAnyError(outcome) == outcome # "ok"

\* Mutant of IsTypeError: no exception of the preferred form leads to the fallback.
IsNeverTypeError(outcome) == FALSE

\* except TypeError: the outcomes of the preferred form that lead to the fallback
IsTypeError(outcome) == outcome = "TypeError"

\* Mutant of store: the instance is not put in the cache.
storeNothing(cache, key, p) == cache

\* Mutant of store: the new instance takes the place of the whole cache.
storeAlone(cache, key, p) == [k \in {key} |-> p]

\* pipelines[lang_code] = p
store(cache, key, p) == (key :> p) @@ cache

get_pipeline(cache, lang_code, ctor, nc) ==
    LET key == LET l == strip(IF lang_code # <<>> THEN lang_code ELSE <<"a">>)
               IN  IF l # <<>> THEN l ELSE <<"a">>
        made(p, calls) ==
            [ok |-> TRUE, p |-> p, exc |-> NoException, pipelines |-> store(cache, key, p),
             nConstructed |-> nc + 1, attempts |-> calls]
        raised(exc, calls) ==
            [ok |-> FALSE, p |-> KPipeline(key, 0), exc |-> exc, pipelines |-> cache,
             nConstructed |-> nc, attempts |-> calls]
        first  == [form |-> "lang_code, repo_id", lang |-> key, outcome |-> ctor.pref]
        second == [form |-> "lang_code", lang |-> key, outcome |-> ctor.fallback]
    IN  IF key \in DOMAIN cache
        THEN [ok |-> TRUE, p |-> cache[key], exc |-> NoException, pipelines |-> cache,
              nConstructed |-> nc, attempts |-> <<>>]
        ELSE IF ctor.pref = "ok" THEN made(KPipeline(key, nc + 1), <<first>>)
        ELSE IF ~IsTypeError(ctor.pref) THEN raised("KPipeline failed", <<first>>)
        ELSE IF ctor.fallback = "ok" THEN made(KPipeline(key, nc + 1), <<first, second>>)
        ELSE raised(IF ctor.fallback = "TypeError" THEN "unexpected keyword argument"
                    ELSE "KPipeline failed", <<first, second>>)

-----------------------------------------------------------------------------
(* main: one iteration of the loop *)

SpeedMin == 7
SpeedMax == 12
DefaultSpeed == 10

\* if speed < 0.7: speed = 0.7; if speed > 1.2: speed = 1.2
ClampSpeed(speed) ==
    LET s1 == IF speed < SpeedMin THEN SpeedMin ELSE speed
    IN  IF s1 > SpeedMax THEN SpeedMax ELSE s1

\* req.get(key)
Get(req, key) == IF req[key].t = "absent" THEN None ELSE req[key]

\* str(req.get(key) or default)
StrField(req, key, default) == PyStr(Or(Get(req, key), S(default)))

\* rid = str(req.get("id") or "")
ExtractId(req) == StrField(req, "id", <<>>)

\* Mutant of NormText: the text is not stripped.
NormTextUnstripped(req) == StrField(req, "text", <<>>)

\* text = str(req.get("text") or "").strip()
NormText(req) == strip(StrField(req, "text", <<>>))

\* voice = str(req.get("voice") or "af_heart").strip() or "af_heart"
NormVoice(req) ==
    LET v == strip(StrField(req, "voice", <<"af_heart">>))
    IN  IF v # <<>> THEN v ELSE <<"af_heart">>

\* lang_code = str(req.get("lang_code") or "a").strip() or "a"
NormLang(req) ==
    LET l == strip(StrField(req, "lang_code", <<"a">>))
    IN  IF l # <<>> THEN l ELSE <<"a">>

\* float(req.get("speed") or 1.0)
ParseSpeed(req) == PyFloat(Or(Get(req, "speed"), N(DefaultSpeed)))

SuccessResponse(id, audio_base64) ==
    [id |-> id, ok |-> TRUE, format |-> "wav_24000", sample_rate |-> SampleRate,
     audio_base64 |-> audio_base64]

\* Mutant of FailureResponse: the failure response carries an audio field too.
FailureResponseWithAudio(id, error) ==
    [id |-> id, ok |-> FALSE, error |-> error, audio_base64 |-> <<>>]

FailureResponse(id, error) == [id |-> id, ok |-> FALSE, error |-> error]

NoResponse == [id |-> <<>>, ok |-> FALSE]

NoCall == [made |-> FALSE, text |-> <<>>, voice |-> <<>>, speed |-> 0, p |-> KPipeline(<<>>, 0)]

\* Mutant of concatenate: each part is put before the parts already joined.
RECURSIVE concatenatePrepending(_)
concatenatePrepending(parts) ==
    IF parts = <<>> THEN <<>> ELSE concatenatePrepending(Tail(parts)) \o Head(parts).a

\* audio_parts: the chunks whose audio is not None; then np.concatenate, or
\* np.zeros((0,)) when there is none.
RECURSIVE concatenate(_)
concatenate(parts) ==
    IF parts = <<>> THEN <<>> ELSE Head(parts).a \o concatenate(Tail(parts))

HasAudio(chunk) == ~chunk.none

audio_all(chunks) == concatenate(SelectSeq(chunks, HasAudio))

\* Mutant of json_loads: a line that is not JSON is taken for the empty object.
json_loadsLenient(ln) ==
    IF ln.kind \in {"object", "array"}
    THEN [ok |-> TRUE, kind |-> ln.kind, exc |-> NoException]
    ELSE [ok |-> TRUE, kind |-> "object", exc |-> NoException]

\* json.loads(line): whether the line is a JSON text, and of which kind
json_loads(ln) ==
    IF ln.kind \in {"object", "array"}
    THEN [ok |-> TRUE, kind |-> ln.kind, exc |-> NoException]
    ELSE [ok |-> FALSE, kind |-> ln.kind, exc |-> "Expecting value"]

\* if not text
not_text(text) == text = <<>>

\* Mutant of InitRid: rid is not reset at the top of the iteration.
InitRidStale(previous) == previous

\* rid = "" at the top of the iteration
InitRid(previous) == <<>>

\* The try block of one iteration, for a line that is not blank, up to the
\* point where it leaves: by the `continue` of the empty-text path
\* (kind "fast", its response not yet written), at its end with the response
\* built (kind "done"), or by an exception (kind "exc"). rid is the value of
\* the local rid at that point.
try_block(ln, rid0, cache, nc, eng) ==
    LET out(kind, id, resp, exc, gp, call, reached) ==
            [kind |-> kind, rid |-> id, resp |-> resp, exc |-> exc,
             pipelines |-> gp.pipelines, nConstructed |-> gp.nConstructed,
             attempts |-> gp.attempts, call |-> call, reached |-> reached]
        untouched == [pipelines |-> cache, nConstructed |-> nc, attempts |-> <<>>]
        raise(id, exc) == out("exc", id, NoResponse, exc, untouched, NoCall, FALSE)
        decoded == json_loads(ln)
    IN  IF ~decoded.ok THEN raise(rid0, decoded.exc)
        ELSE IF decoded.kind = "array"
        THEN raise(rid0, "'list' object has no attribute 'get'")
        ELSE
        LET req       == ln.f
            id        == ExtractId(req)
            text      == NormText(req)
            voice     == NormVoice(req)
            lang_code == NormLang(req)
            parsed    == ParseSpeed(req)
        IN  IF ~parsed.ok THEN raise(id, parsed.exc)
            ELSE
            LET speed == ClampSpeed(parsed.n)
            IN  IF not_text(text)
                THEN out("fast", id, SuccessResponse(id, <<>>), NoException, untouched,
                         NoCall, FALSE)
                ELSE
                LET gp   == get_pipeline(cache, lang_code, eng.ctor, nc)
                    call == [made |-> TRUE, text |-> text, voice |-> voice,
                             speed |-> speed, p |-> gp.p]
                IN  IF ~gp.ok THEN out("exc", id, NoResponse, gp.exc, gp, NoCall, TRUE)
                    ELSE IF eng.call.raises
                    THEN out("exc", id, NoResponse, "synthesis failed", gp, call, TRUE)
                    ELSE out("done", id,
                             SuccessResponse(id,
                                 b64encode(wav_bytes_from_float32_mono(
                                     audio_all(eng.call.chunks), SampleRate))),
                             NoException, gp, call, TRUE)

\* Mutant of except_block: the response carries a fixed error text and the
\* message goes to the diagnostic channel only.
except_blockGeneric(id, exc) ==
    [resp |-> [id |-> id, ok |-> FALSE, error |-> "internal error"],
     diag |-> <<[what |-> "kokoro worker error:", exc |-> exc],
                [what |-> "traceback", exc |-> exc]>>]

\* except Exception as exc: the two eprint calls and the failure response
except_block(id, exc) ==
    [resp |-> FailureResponse(id, exc),
     diag |-> <<[what |-> "kokoro worker error:", exc |-> exc],
                [what |-> "traceback", exc |-> exc]>>]

-----------------------------------------------------------------------------
(* json_out: os.fdopen(json_fd, "w", buffering=1) *)

\* Mutant of flush: what is buffered stays buffered.
flushNothing(f) == f

\* json_out.flush(): what is buffered goes to the channel
flush(f) == [buf |-> <<>>, chan |-> f.chan \o f.buf]

\* json_out.write(json.dumps(resp) + "\n"): the handle is line buffered, so
\* the write of a line flushes. When the underlying write raises (ok is
\* FALSE), the line stays in the buffer.
write(f, entry, ok) ==
    LET g == [f EXCEPT !.buf = Append(@, entry)]
    IN  IF ok THEN flush(g) ELSE g

\* The engine behaviours that make a difference to the request `t` is the
\* try block of: the constructor's only when it is called, the call's only
\* when the engine is called.
Engines == [ctor : CtorBehaviours, call : CallBehaviours]

Relevant(t, eng) ==
    /\ t.attempts = <<>> => eng.ctor = DefaultEng.ctor
    /\ ~t.call.made => eng.call = DefaultEng.call

Idle == [kind |-> "idle"]

-----------------------------------------------------------------------------
(* The state machine of main() *)

\* No call of the encoder on its own is under way.
NoEncoding == [audio |-> <<>>, sample_rate |-> SampleRate, wav |-> <<>>, done |-> FALSE]

\* The process has just entered main().
Started ==
    /\ pc = "arbiter"
    /\ fd1 = "primary"
    /\ json_out = [buf |-> <<>>, chan |-> <<>>]
    /\ stderr = <<>>
    /\ pipelines = <<>>
    /\ rid = <<>>
    /\ nlines = 0
    /\ nonblank = <<>>
    /\ nConstructed = 0
    /\ ctorFailed = FALSE
    /\ wfailed = FALSE
    /\ acquired = {}
    /\ textLangs = {}
    /\ line = [kind |-> "ws", ws |-> <<"\n">>, f |-> EmptyObject]
    /\ last = Idle
    /\ arbiter = "none"
    /\ engine_out = {}

Init == Started /\ enc = NoEncoding

\* Mutant of dup2: the arguments are swapped, os.dup2(1, 2), and descriptor 1
\* is left where it was.
dup2Swapped(ok) == "primary"

\* os.dup2(2, 1): when it succeeds descriptor 1 names the diagnostic channel
dup2(ok) == IF ok THEN "diag" ELSE "primary"

\* The engine library writes n times to descriptor 1, which points to fd.
engine_print(out, fd, n) == IF n = 0 THEN out ELSE out \cup {fd}

\* json_fd = os.dup(1); os.dup2(2, 1), whose failure is passed over; os.fdopen
StreamArbiter ==
    /\ pc = "arbiter"
    /\ \E dup_ok \in BOOLEAN, dup2_ok \in BOOLEAN :
         /\ ~dup_ok => dup2_ok
         /\ pc' = IF dup_ok THEN "import" ELSE "crashed"
         /\ fd1' = IF dup_ok THEN dup2(dup2_ok) ELSE fd1
         /\ arbiter' = IF ~dup_ok THEN "dup failed"
                       ELSE IF dup2_ok THEN "redirected" ELSE "degraded"
    /\ UNCHANGED <<json_out, stderr, pipelines, rid, nlines, nonblank, nConstructed,
                   ctorFailed, wfailed, acquired, textLangs, line, last, engine_out, enc>>

\* Mutant of ImportEngine: the failure is reported and main() carries on.
ImportEngineCarriesOn ==
    /\ pc = "import"
    /\ pc' = "loop"
    /\ \E import_ok \in BOOLEAN :
         stderr' = IF import_ok THEN stderr
                   ELSE Append(stderr, [what |-> "kokoro worker import failed:",
                                        exc |-> "No module named 'kokoro'"])
    /\ engine_out' = engine_print(engine_out, fd1, 1)
    /\ UNCHANGED <<fd1, json_out, pipelines, rid, nlines, nonblank, nConstructed,
                   ctorFailed, wfailed, acquired, textLangs, line, last, arbiter, enc>>

\* from kokoro import KPipeline; import numpy
ImportEngine ==
    /\ pc = "import"
    /\ \E import_ok \in BOOLEAN :
         IF import_ok
         THEN pc' = "loop" /\ stderr' = stderr
         ELSE /\ pc' = "exit1"
              /\ stderr' = Append(stderr, [what |-> "kokoro worker import failed:",
                                           exc |-> "No module named 'kokoro'"])
    /\ engine_out' = engine_print(engine_out, fd1, 1)
    /\ UNCHANGED <<fd1, json_out, pipelines, rid, nlines, nonblank, nConstructed,
                   ctorFailed, wfailed, acquired, textLangs, line, last, arbiter, enc>>

(* Observers. The variables nonblank, acquired and textLangs record the   *)
(* input in the words of the protocol's description; the program does not *)
(* read them. The definitions below are what they record.                 *)

\* A line made of whitespace characters only.
WhitespaceOnly(l) == l.kind = "ws" /\ \A i \in 1..Len(l.ws) : l.ws[i] \in Whitespace

\* The language code a request names: trimmed, "a" when absent or blank.
LangOf(req) ==
    LET v == req.lang_code
    IN  CASE v.t = "absent" -> <<"a">>
          [] v.t = "str" -> IF strip(v.s) = <<>> THEN <<"a">> ELSE strip(v.s)
          [] OTHER -> PyStr(v)

\* The request has a text that is not absent, empty or whitespace only.
HasText(req) == req.text.t # "absent" /\ (req.text.t = "str" => strip(req.text.s) # <<>>)

\* The speed of the request is absent, a number, or a string of digits.
SpeedConverts(req) ==
    \/ req.speed.t \in {"absent", "num"}
    \/ req.speed.t = "str" /\ IsDigits(strip(req.speed.s))

\* for line in sys.stdin: the next line arrives
ReadLine ==
    /\ pc = "loop"
    /\ nlines < MaxLines
    /\ \E l \in Lines :
         /\ line' = l
         /\ nonblank' = IF WhitespaceOnly(l) THEN nonblank ELSE Append(nonblank, nlines + 1)
    /\ nlines' = nlines + 1
    /\ pc' = "handle"
    /\ last' = Idle
    /\ UNCHANGED <<fd1, json_out, stderr, pipelines, rid, nConstructed,
                   ctorFailed, wfailed, acquired, textLangs, arbiter, engine_out, enc>>

\* Mutant of IsBlank: the line is tested without being stripped.
IsBlankUnstripped(l) == l.kind = "ws" /\ l.ws = <<>>

\* line = line.strip()
IsBlank(l) == l.kind = "ws" /\ strip(l.ws) = <<>>

\* Mutant of SkipBlank: a blank line ends the loop (break for continue).
SkipBlankBreaks ==
    /\ pc = "handle"
    /\ IsBlank(line)
    /\ pc' = "exit0"
    /\ last' = [kind |-> "blank"]
    /\ UNCHANGED <<fd1, json_out, stderr, pipelines, rid, nlines, nonblank, nConstructed,
                   ctorFailed, wfailed, acquired, textLangs, line,
                   arbiter, engine_out, enc>>

\* if not line: continue
SkipBlank ==
    /\ pc = "handle"
    /\ IsBlank(line)
    /\ pc' = "loop"
    /\ last' = [kind |-> "blank"]
    /\ UNCHANGED <<fd1, json_out, stderr, pipelines, rid, nlines, nonblank, nConstructed,
                   ctorFailed, wfailed, acquired, textLangs, line,
                   arbiter, engine_out, enc>>

\* The rest of the iteration for a line that is not blank: the try block, the
\* except block, the writes of the response. w[1] tells whether the write of
\* the empty-text path succeeds, w[2] whether the write after the try
\* statement does; Writes is the set of the w the channel allows.
Iteration(Writes) ==
    /\ pc = "handle"
    /\ ~IsBlank(line)
    /\ \E eng \in Engines, w \in Writes :
         LET t        == try_block(line, InitRid(rid), pipelines, nConstructed, eng)
             fastFail == t.kind = "fast" /\ ~w[1]
             handled  == IF fastFail THEN "Broken pipe" ELSE t.exc
             caught   == except_block(t.rid, handled)
             entry(r) == [resp |-> r, src |-> nlines]
             jo1      == IF t.kind = "fast" THEN write(json_out, entry(t.resp), w[1])
                         ELSE json_out
             final    == ~(t.kind = "fast" /\ w[1])
             resp     == IF handled # NoException THEN caught.resp ELSE t.resp
             jo2      == IF final THEN write(jo1, entry(resp), w[2]) ELSE jo1
         IN  /\ Relevant(t, eng)
             /\ t.kind # "fast" => w[1]
             /\ ~final => w[2]
             /\ json_out' = IF final /\ ~w[2] THEN jo2 ELSE flush(jo2)
             /\ stderr' = IF handled # NoException THEN stderr \o caught.diag ELSE stderr
             /\ pc' = IF final /\ ~w[2] THEN "crashed" ELSE "loop"
             /\ rid' = t.rid
             /\ pipelines' = t.pipelines
             /\ nConstructed' = t.nConstructed
             /\ ctorFailed' = (ctorFailed \/ (t.reached /\ t.kind = "exc" /\ ~t.call.made))
             /\ wfailed' = (wfailed \/ ~w[1] \/ ~w[2])
             /\ acquired' = IF line.kind = "object" /\ HasText(line.f) /\ SpeedConverts(line.f)
                            THEN acquired \cup {LangOf(line.f)} ELSE acquired
             /\ textLangs' = IF line.kind = "object" /\ HasText(line.f)
                             THEN textLangs \cup {LangOf(line.f)} ELSE textLangs
             /\ last' = [kind |-> t.kind, t |-> t, eng |-> eng, w |-> w, handled |-> handled,
                         before |-> pipelines, chanBefore |-> json_out.chan]
             /\ engine_out' = engine_print(engine_out, fd1,
                                  Len(t.attempts) + IF t.call.made THEN 1 ELSE 0)
    /\ UNCHANGED <<fd1, nlines, nonblank, line, arbiter, enc>>

\* sys.stdin is at end-of-input: the for loop ends, return 0
EndOfInput ==
    /\ pc = "loop"
    /\ pc' = "exit0"
    /\ last' = [kind |-> "eof"]
    /\ UNCHANGED <<fd1, json_out, stderr, pipelines, rid, nlines, nonblank, nConstructed,
                   ctorFailed, wfailed, acquired, textLangs, line,
                   arbiter, engine_out, enc>>

\* The parent process reads the protocol channel: every write succeeds.
HandleRequest == Iteration({[i \in 1..2 |-> TRUE]})

\* The protocol channel may be broken: a write may raise.
HandleRequestIO == Iteration([1..2 -> BOOLEAN])

Next ==
    \/ StreamArbiter
    \/ ImportEngine
    \/ ReadLine
    \/ SkipBlank
    \/ HandleRequest
    \/ EndOfInput

Spec == Init /\ [][Next]_vars

\* The iteration under way ends: the worker is back at the for statement.
IterationEnds == pc = "handle" /\ pc' = "loop"

\* The worker under fair scheduling. The interpreter runs the statements of
\* main() in order, so the set-up steps are taken; the engine's calls return
\* or raise, so an iteration that has started ends; and the read of sys.stdin
\* returns, the parent process sending a further line or closing the stream.
SpecLive ==
    /\ Spec
    /\ WF_vars(StreamArbiter)
    /\ WF_vars(ImportEngine)
    /\ WF_pc(IterationEnds)
    /\ WF_vars(ReadLine \/ EndOfInput)

NextIO ==
    \/ StreamArbiter
    \/ ImportEngine
    \/ ReadLine
    \/ SkipBlank
    \/ HandleRequestIO
    \/ EndOfInput

SpecIO == Init /\ [][NextIO]_vars

-----------------------------------------------------------------------------
(* wav_bytes_from_float32_mono on its own *)

\* Length of the longest sample buffer given to the encoder.
MaxSamples == 2

\* Samples, in units of 1/131068: -2.0, -1.0, values just inside full scale,
\* values that scale to an integer, a quarter, a half and three quarters on
\* both sides of zero, 1.0 and 1.5.
Samples ==
    {-262136, -131068, -131067, -7, -6, -5, -3, -2, -1, 0,
     1, 2, 3, 5, 6, 7, 131065, 131067, 131068, 196602}

Buffers == UNION {[1..n -> Samples] : n \in 0..MaxSamples}

\* The sample rates a caller passes: the rate of the engine, and no rate.
Rates == {0, SampleRate}

InitEncoder ==
    /\ Started
    /\ enc \in {[audio |-> a, sample_rate |-> r, wav |-> <<>>, done |-> FALSE] :
                  a \in Buffers, r \in Rates}

\* wav_bytes_from_float32_mono(audio, sample_rate) is called and returns
Encode ==
    /\ ~enc.done
    /\ enc' = [enc EXCEPT !.wav = wav_bytes_from_float32_mono(enc.audio, enc.sample_rate),
                          !.done = TRUE]
    /\ UNCHANGED <<pc, fd1, json_out, stderr, pipelines, rid, nlines, nonblank,
                   nConstructed, ctorFailed, wfailed, acquired, textLangs, line, last,
                   arbiter, engine_out>>

NextEncoder == Encode

SpecEncoder == InitEncoder /\ [][NextEncoder]_vars

-----------------------------------------------------------------------------
(* Properties *)

\* The last iteration handled a request line (it was not blank).
Handled == last.kind \in {"fast", "done", "exc"}

\* The last response line on the protocol channel.
LastEntry == json_out.chan[Len(json_out.chan)]

\* The last iteration put exactly one more line on the protocol channel.
OneMoreLine ==
    /\ Len(json_out.chan) = Len(last.chanBefore) + 1
    /\ SubSeq(json_out.chan, 1, Len(last.chanBefore)) = last.chanBefore

\* The line numbers of the non-blank lines whose iteration is over.
Processed ==
    LET Over(n) == n < nlines
    IN  IF pc = "handle" THEN SelectSeq(nonblank, Over) ELSE nonblank

\* The id a line carries: its string id, and the empty string when it has no
\* id or is not an object. (Lines whose id is not a string are left out.)
IdSpecified(l) == l.kind # "object" \/ l.f.id.t \in {"str", "absent"}

IdOf(l) == IF l.kind = "object" /\ l.f.id.t = "str" THEN l.f.id.s ELSE <<>>

\* C1: at every point the number of response lines written equals the number
\* of non-blank lines fully processed: one response line for each line that
\* is not blank, none for a whitespace-only line.
C1_OneResponsePerNonBlankLine == Len(json_out.chan) = Len(Processed)

\* A request that failed, then a blank line: one response line.
C1_Witness ==
    /\ pc = "loop" /\ nlines = 2 /\ last.kind = "blank"
    /\ Len(nonblank) = 1 /\ Len(json_out.chan) = 1 /\ ~json_out.chan[1].resp.ok

\* C2: the id of every response equals the id of the request line that caused
\* it: the string id of the request object, also when the request fails after
\* the id was extracted, and the empty string when the request has no id or
\* the line is not an object; the id of an earlier request does not show up.
C2_ResponseIdIsRequestId ==
    Handled => /\ OneMoreLine
               /\ IdSpecified(line) => LastEntry.resp.id = IdOf(line)

\* A request with id r1 was answered, then a line that is not JSON.
C2_Witness ==
    /\ Handled /\ Len(json_out.chan) = 2
    /\ json_out.chan[1].resp.id = <<"r", "1">>
    /\ line.kind = "garbage" /\ LastEntry.resp.id = <<>>

\* C3: the response to the k-th non-blank line is the k-th line on the
\* protocol channel, and nothing is left in the buffer of the handle when the
\* worker goes on to the next input line.
C3_FifoAndFlushed ==
    /\ json_out.buf = <<>>
    /\ [i \in 1..Len(json_out.chan) |-> json_out.chan[i].src] = Processed

\* A blank line, then a request: its response is the first line of the channel.
C3_Witness ==
    /\ pc = "loop" /\ Handled /\ nonblank = <<2>>
    /\ Len(json_out.chan) = 1 /\ json_out.chan[1].src = 2

\* The number of failure responses on the protocol channel.
Failures == Cardinality({i \in 1..Len(json_out.chan) : ~json_out.chan[i].resp.ok})

\* The request is well formed: every field is absent or of its type.
WellFormed(l) ==
    /\ l.kind = "object"
    /\ \A k \in {"id", "text", "voice", "lang_code"} : l.f[k].t \in {"absent", "str"}
    /\ l.f.speed.t \in {"absent", "num"}

\* C4: an exception raised while decoding, normalizing, acquiring the engine
\* or synthesizing is converted into one failure response {id, ok: false,
\* error} with the request's id and the exception's message; the error and
\* the trace go to the diagnostic channel; the process goes on with the next
\* line, and a well-formed request after a failed one is answered ok: true
\* when the engine works.
C4_ExceptionBecomesFailureResponse ==
    /\ Handled /\ last.kind = "exc" =>
         /\ OneMoreLine
         /\ last.t.exc # NoException
         /\ IdSpecified(line) =>
              LastEntry.resp = [id |-> IdOf(line), ok |-> FALSE, error |-> last.t.exc]
         /\ last.eng.call.raises /\ last.t.call.made =>
              LastEntry.resp.error = "synthesis failed"
         /\ Len(stderr) >= 2
         /\ stderr[Len(stderr) - 1] = [what |-> "kokoro worker error:", exc |-> last.t.exc]
         /\ stderr[Len(stderr)] = [what |-> "traceback", exc |-> last.t.exc]
         /\ pc = "loop"
    /\ pc \in {"loop", "handle", "exit0"} => Len(stderr) = 2 * Failures
    /\ Handled /\ WellFormed(line) /\ ~last.eng.call.raises
         /\ last.eng.ctor.pref = "ok" =>
         LastEntry.resp.ok /\ LastEntry.resp.id = IdOf(line)

\* The engine raised for a request, and the next, well-formed, request was
\* answered with audio.
C4_Witness ==
    /\ Len(json_out.chan) = 2
    /\ json_out.chan[1].resp = [id |-> <<"r", "2">>, ok |-> FALSE, error |-> "synthesis failed"]
    /\ last.kind = "done" /\ WellFormed(line)
    /\ LastEntry.resp.ok /\ LastEntry.resp.audio_base64 # <<>>

\* C5: a non-blank line that is not JSON gets a failure response with id ""
\* and ok: false, leaves the engine cache as it was and does not end the
\* loop; the response to the line after it is the one the line gets from a
\* worker that was not sent the invalid line.
C5_InvalidJsonIsRecovered ==
    /\ Handled /\ line.kind = "garbage" =>
         /\ OneMoreLine
         /\ LastEntry.resp.id = <<>> /\ ~LastEntry.resp.ok
         /\ DOMAIN LastEntry.resp = {"id", "ok", "error"}
         /\ pipelines = last.before
         /\ last.t.attempts = <<>> /\ ~last.t.call.made
         /\ pc = "loop"
    /\ Handled /\ nlines = 2 /\ Len(json_out.chan) = 2
         /\ json_out.chan[1].resp = [id |-> <<>>, ok |-> FALSE, error |-> "Expecting value"] =>
         LET alone == try_block(line, <<>>, <<>>, 0, last.eng)
         IN  LastEntry.resp = IF alone.kind = "exc" THEN FailureResponse(alone.rid, alone.exc)
                              ELSE alone.resp

\* A line that is not JSON, then a request that the engine serves.
C5_Witness ==
    /\ Handled /\ nlines = 2 /\ Len(json_out.chan) = 2
    /\ json_out.chan[1].resp = [id |-> <<>>, ok |-> FALSE, error |-> "Expecting value"]
    /\ last.kind = "done" /\ LastEntry.resp.ok /\ Cardinality(DOMAIN pipelines) = 1

\* The request object has no text: it is absent, empty or whitespace only.
EmptyTextRequest(l) == l.kind = "object" /\ ~HasText(l.f)

\* The last iteration neither looked for an engine nor constructed or called one.
NoEngineUse ==
    /\ ~last.t.reached /\ last.t.attempts = <<>> /\ ~last.t.call.made
    /\ pipelines = last.before

Clamped(n) == IF n < 7 THEN 7 ELSE IF n > 12 THEN 12 ELSE n

\* C7: for a request whose speed is a number, the speed passed to the engine
\* is that number clamped to [0.7, 1.2]; an absent speed is passed as 1.0;
\* no numeric speed is rejected with a failure response.
C7_SpeedIsClamped ==
    Handled /\ line.kind = "object" =>
        /\ line.f.speed.t = "num" /\ last.t.call.made =>
             last.t.call.speed = Clamped(line.f.speed.n)
        /\ line.f.speed.t = "absent" /\ last.t.call.made => last.t.call.speed = 10
        /\ line.f.speed.t = "num" /\ HasText(line.f) => last.t.reached

\* A top-level value that is not an object, or a field of the wrong type.
WrongType(l) ==
    \/ l.kind = "array"
    \/ /\ l.kind = "object"
       /\ \/ \E k \in {"id", "text", "voice", "lang_code"} : l.f[k].t \notin {"absent", "str"}
          \/ l.f.speed.t \notin {"absent", "num"}

\* The engine of the last iteration constructs and synthesizes without raising.
EngineWorks == last.eng.ctor.pref = "ok" /\ ~last.eng.call.raises

C9_Original == ~ctorFailed => nConstructed = Cardinality(textLangs)

\* C9, amended: when construction succeeds, the number of instances
\* constructed equals the number of distinct normalized language codes among
\* the requests with non-empty text whose speed converts to a number; the
\* cache holds one instance for each of these codes, and no two of its
\* entries are the same instance.
C9_OneEnginePerLang ==
    ~ctorFailed =>
        /\ nConstructed = Cardinality(acquired)
        /\ DOMAIN pipelines = acquired
        /\ \A k \in DOMAIN pipelines : pipelines[k].lang = k
        /\ \A j, k \in DOMAIN pipelines : pipelines[j].serial = pipelines[k].serial => j = k

\* The language code "b", then " b ": the second request uses the cached instance.
C9_Witness ==
    /\ Handled /\ nlines = 2 /\ Len(json_out.chan) = 2
    /\ line.kind = "object" /\ line.f.lang_code = S(<<" ", "b", " ">>)
    /\ acquired = {<<"b">>} /\ nConstructed = 1
    /\ last.t.call.made /\ last.t.attempts = <<>>
    /\ last.before # <<>>

\* The last iteration called the constructor and the last call raised.
ConstructionFailed ==
    /\ Handled /\ last.t.attempts # <<>>
    /\ last.t.attempts[Len(last.t.attempts)].outcome # "ok"

\* C10: when constructing the engine for a language code fails, construction
\* is not tried again within the request (the one-argument form is called
\* only after a TypeError of the two-argument form, each form once), the
\* request gets a failure response, the cache has no entry for the language
\* code afterwards; and a request that finds no entry for its language code
\* calls the constructor, and is served when construction then succeeds.
C10_ConstructionFailure ==
    /\ Handled /\ last.t.attempts # <<>> /\ last.t.attempts[1].outcome = "error" =>
         Len(last.t.attempts) = 1 /\ ConstructionFailed
    /\ ConstructionFailed =>
         /\ Len(last.t.attempts) <= 2
         /\ Len(last.t.attempts) = 2 =>
              /\ last.t.attempts[1].outcome = "TypeError"
              /\ last.t.attempts[1].form # last.t.attempts[2].form
         /\ OneMoreLine
         /\ ~LastEntry.resp.ok
         /\ LastEntry.resp.error = last.t.exc
         /\ IdSpecified(line) => LastEntry.resp.id = IdOf(line)
         /\ ~last.t.call.made
         /\ LangOf(line.f) \notin DOMAIN pipelines
         /\ pipelines = last.before
         /\ pc = "loop"
    /\ Handled /\ last.t.reached /\ LangOf(line.f) \notin DOMAIN last.before =>
         /\ last.t.attempts # <<>>
         /\ \A i \in 1..Len(last.t.attempts) : last.t.attempts[i].lang = LangOf(line.f)
         /\ ~ConstructionFailed =>
              /\ LangOf(line.f) \in DOMAIN pipelines
              /\ ~last.eng.call.raises => LastEntry.resp.ok

\* Construction failed for the language code "a", and the next request with
\* that language code constructed the engine and was served.
C10_Witness ==
    /\ Handled /\ nlines = 2 /\ Len(json_out.chan) = 2
    /\ ctorFailed /\ acquired = {<<"a">>}
    /\ json_out.chan[1].resp = [id |-> <<"r", "1">>, ok |-> FALSE, error |-> "KPipeline failed"]
    /\ last.kind = "done" /\ last.t.attempts # <<>>
    /\ DOMAIN pipelines = {<<"a">>}

-----------------------------------------------------------------------------
(* The shapes of a response *)

SuccessFields == {"id", "ok", "format", "sample_rate", "audio_base64"}
FailureFields == {"id", "ok", "error"}

\* C11: every response line has one of two shapes. A success has ok true and
\* exactly the fields id, format "wav_24000", sample_rate 24000 and
\* audio_base64, and no error; a failure has ok false and exactly the fields
\* id and error, and none of format, sample_rate, audio_base64.
C11_TwoResponseShapes ==
    \A i \in 1..Len(json_out.chan) :
        LET resp == json_out.chan[i].resp
        IN  /\ "ok" \in DOMAIN resp
            /\ resp.ok \in BOOLEAN
            /\ resp.ok => /\ DOMAIN resp = SuccessFields
                          /\ resp.format = "wav_24000"
                          /\ resp.sample_rate = 24000
            /\ ~resp.ok => DOMAIN resp = FailureFields

\* A failure response and a success response carrying audio are on the channel.
C11_Witness ==
    /\ Len(json_out.chan) = 2
    /\ ~json_out.chan[1].resp.ok
    /\ json_out.chan[2].resp.ok
    /\ json_out.chan[2].resp.audio_base64 # <<>>

-----------------------------------------------------------------------------
(* Termination *)

\* C12: as long as the engine's calls return or raise, every line the worker
\* has read is dealt with and the worker is back at the head of the loop,
\* every non-blank line is answered by then, and from the head of the loop
\* the process goes on to exit with status 0; the loop ends normally at
\* end-of-input only, with every non-blank line answered, and no content of a
\* line makes the worker leave the loop.
C12_ReadsAllThenExitsZero ==
    /\ [][pc = "handle" => pc' = "loop"]_vars
    /\ [][pc # "exit0" /\ pc' = "exit0" => pc = "loop" /\ last'.kind = "eof"]_vars
    /\ [](pc \in {"loop", "exit0"} =>
            Len(json_out.chan) = Len(nonblank) /\ json_out.buf = <<>>)
    /\ (pc = "handle") ~> (pc = "loop")
    /\ (pc = "loop") ~> (pc = "exit0")

\* The worker has read a blank line and a request, answered the request and
\* left with status 0 at end-of-input.
C12_Witness ==
    /\ pc = "exit0" /\ last.kind = "eof"
    /\ nlines = 2 /\ Len(nonblank) = 1 /\ Len(json_out.chan) = 1

-----------------------------------------------------------------------------
(* Start-up *)

\* The import of the engine library has been reported as failed.
ImportFailed ==
    \E i \in 1..Len(stderr) : stderr[i].what = "kokoro worker import failed:"

\* C13: when the import of the engine library fails the process exits with
\* status 1 and has read no input line: no request was attempted, no engine
\* constructed, nothing written to the protocol channel or left in its
\* buffer, and the diagnostic channel holds the report of the failure.
C13_ImportFailureExitsOne ==
    /\ ImportFailed => pc = "exit1"
    /\ pc = "exit1" =>
         /\ ImportFailed /\ Len(stderr) = 1
         /\ nlines = 0 /\ nonblank = <<>> /\ last.kind = "idle"
         /\ json_out = [buf |-> <<>>, chan |-> <<>>]
         /\ pipelines = <<>> /\ nConstructed = 0
         /\ arbiter = "redirected" => engine_out \subseteq {"diag"}

\* The import failed after the descriptors were redirected.
C13_Witness == pc = "exit1" /\ ImportFailed /\ arbiter = "redirected" /\ nlines = 0

\* The diagnostics the code writes for another reason than the descriptor
\* set-up: the report of a failed import, the report of a failed request.
OtherDiagnostics == {"kokoro worker import failed:", "kokoro worker error:", "traceback"}

\* C14: when the redirection of descriptor 1 fails at start-up, the worker
\* does not exit or crash on it, logs the failure on the diagnostic channel,
\* and goes on to answer requests on the original primary output.
C14_DegradedStartIsLogged ==
    arbiter = "degraded" =>
        /\ pc # "crashed"
        /\ fd1 = "primary"
        /\ Len(json_out.chan) = Len(Processed)
        /\ \E i \in 1..Len(stderr) : stderr[i].what \notin OtherDiagnostics

\* C15: descriptor 1 is remapped once, in the set-up step, before the engine
\* library is imported and before any line is read. When the remapping
\* succeeded, descriptor 1 names the diagnostic channel from then on, every
\* write of the engine library to it (at import, construction or inference)
\* lands on the diagnostic channel, and the protocol channel holds the
\* response lines of the loop and nothing else, one JSON object a line.
C15_RemapOnceBeforeEngine ==
    /\ [][fd1' # fd1 \/ arbiter' # arbiter =>
            /\ pc = "arbiter" /\ arbiter = "none"
            /\ engine_out = {} /\ nlines = 0]_vars
    /\ [](pc \notin {"arbiter", "crashed"} => arbiter \in {"redirected", "degraded"})
    /\ [](engine_out # {} \/ nlines > 0 => arbiter \in {"redirected", "degraded"})
    /\ [](arbiter = "redirected" =>
            /\ fd1 = "diag"
            /\ engine_out \subseteq {"diag"}
            /\ pc \in {"loop", "handle", "exit0"} => engine_out = {"diag"}
            /\ \A i \in 1..Len(json_out.chan) :
                 /\ json_out.chan[i].src \in 1..nlines
                 /\ DOMAIN json_out.chan[i].resp \in {SuccessFields, FailureFields})

\* After a successful remapping a request had its engine constructed and
\* called: what the library wrote went to the diagnostic channel, and the
\* protocol channel holds the one response.
C15_Witness ==
    /\ arbiter = "redirected" /\ Handled
    /\ last.t.attempts # <<>> /\ last.t.call.made
    /\ engine_out = {"diag"}
    /\ Len(json_out.chan) = 1

-----------------------------------------------------------------------------
(* The encoder *)

Abs(n) == IF n < 0 THEN -n ELSE n

\* The frames of the container the encoder returned, after its five header fields.
Frames == SubSeq(enc.wav, 6, Len(enc.wav))

\* A sample brought into [-1.0, 1.0].
Saturated(m) == IF m > 131068 THEN 131068 ELSE IF m < -131068 THEN -131068 ELSE m

\* C16, as stated: each sample is clamped to [-1.0, 1.0] and scaled by 32767,
\* and the frame is the nearest integer, an exact tie going toward zero; a
\* sample out of range gives full scale, and every frame is in -32767..32767.
C16_Original ==
    enc.done =>
        /\ Len(Frames) = Len(enc.audio)
        /\ \A i \in 1..Len(enc.audio) :
             LET c == Saturated(enc.audio[i])
                 e == Frames[i]
             IN  /\ e \in -32767..32767
                 /\ Abs(4 * e - c) <= 2
                 /\ Abs(4 * e - c) = 2 => Abs(4 * e) < Abs(c)
                 /\ enc.audio[i] >= 131068 => e = 32767
                 /\ enc.audio[i] <= -131068 => e = -32767

\* C16: each sample is clamped to [-1.0, 1.0] and scaled by 32767, and the
\* frame is the scaled value with its fraction dropped, whatever the
\* fraction is: the integer next to it toward zero. A sample out of range
\* gives full scale (1.5 gives 32767, -2.0 gives -32767) and every frame is
\* in -32767..32767.
C16_EncoderTruncates ==
    enc.done =>
        /\ Len(Frames) = Len(enc.audio)
        /\ \A i \in 1..Len(enc.audio) :
             LET c == Saturated(enc.audio[i])
                 e == Frames[i]
             IN  /\ e \in -32767..32767
                 /\ c >= 0 => 4 * e <= c /\ c < 4 * e + 4
                 /\ c <= 0 => 4 * e >= c /\ c > 4 * e - 4
                 /\ enc.audio[i] >= 131068 => e = 32767
                 /\ enc.audio[i] <= -131068 => e = -32767

\* The encoder was given the samples 1.5 and -1.75 / 32767: the frames are
\* full scale and -1.
C16_Witness ==
    /\ enc.done
    /\ enc.audio = <<196602, -7>>
    /\ Frames = <<32767, -1>>

-----------------------------------------------------------------------------
(* Synthesis *)

\* The samples of the chunks that carry audio, in the order of the chunks.
RECURSIVE InYieldOrder(_)
InYieldOrder(chunks) ==
    IF chunks = <<>> THEN <<>>
    ELSE (IF Head(chunks).none THEN <<>> ELSE Head(chunks).a) \o InYieldOrder(Tail(chunks))

\* What a base64 text decodes to.
Decoded(b) == [i \in 1..Len(b) |-> b[i][2]]

\* C17: a request with a text whose engine call returns is not an error,
\* whatever the engine yields. Its audio_base64 is not empty and decodes to
\* a container at sample rate 24000 whose frames are those of the samples of
\* the chunks carrying audio, joined in the order they were yielded, the
\* chunks without audio being skipped; when the engine yields no chunk, or
\* only chunks without audio, the container has zero frames.
C17_ChunksJoinedInOrder ==
    Handled /\ last.t.call.made /\ ~last.eng.call.raises =>
        LET samples == InYieldOrder(last.eng.call.chunks)
            resp    == LastEntry.resp
        IN  /\ last.kind = "done"
            /\ OneMoreLine
            /\ resp.ok
            /\ resp.audio_base64 # <<>>
            /\ LET wav == Decoded(resp.audio_base64)
               IN  /\ Len(wav) = 5 + Len(samples)
                   /\ wav[4] = 24000
                   /\ wav[5] = Len(samples)
                   /\ \A i \in 1..Len(samples) :
                        wav[5 + i] = astype_int16(clip(samples[i]))
                   /\ (\A k \in 1..Len(last.eng.call.chunks) :
                          last.eng.call.chunks[k].none) => wav[5] = 0 /\ Len(wav) = 5

\* The engine yielded a chunk with audio, one without and one with audio again.
C17_Witness ==
    /\ Handled /\ last.kind = "done"
    /\ Len(last.eng.call.chunks) = 3
    /\ last.eng.call.chunks[2].none
    /\ Decoded(LastEntry.resp.audio_base64)[5] = 3

\* The engine yielded one chunk, without audio: the response is a success
\* whose container has no frame.
C17_WitnessNoAudio ==
    /\ Handled /\ last.kind = "done"
    /\ last.eng.call.chunks = <<NoAudio>>
    /\ LastEntry.resp.ok
    /\ Decoded(LastEntry.resp.audio_base64) = <<"RIFF", 1, 2, 24000, 0>>

-----------------------------------------------------------------------------
(* The engine cache *)

C19_CacheGrowsEntriesStable ==
    /\ [][\A k \in DOMAIN pipelines :
            k \in DOMAIN pipelines' /\ pipelines'[k] = pipelines[k]]_vars
    /\ [](Handled /\ last.t.reached /\ LangOf(line.f) \in DOMAIN last.before =>
            /\ last.t.attempts = <<>>
            /\ last.t.call.made
            /\ last.t.call.p = last.before[LangOf(line.f)]
            /\ pipelines = last.before)
    /\ [](Handled =>
            LET fresh == try_block(line, <<>>, last.before, 0, last.eng)
            IN  /\ fresh.kind = last.kind
                /\ fresh.exc = last.t.exc
                /\ fresh.resp = last.t.resp
                /\ OneMoreLine
                /\ LastEntry.resp = IF fresh.kind = "exc"
                                    THEN FailureResponse(fresh.rid, fresh.exc)
                                    ELSE fresh.resp)

\* The synthesis of the first request raised; the second request, with the
\* same language code, was served by the instance the first one constructed.
C19_Witness ==
    /\ Handled /\ nlines = 2 /\ Len(json_out.chan) = 2
    /\ ~json_out.chan[1].resp.ok
    /\ json_out.chan[1].resp.error = "synthesis failed"
    /\ last.kind = "done"
    /\ last.t.attempts = <<>>
    /\ nConstructed = 1
    /\ last.t.call.p = pipelines[LangOf(line.f)]

-----------------------------------------------------------------------------
(* A protocol channel that fails *)

\* The response lines the last iteration produced, written or still buffered.
LinesOfLastRequest ==
    LET all == json_out.chan \o json_out.buf
    IN  {i \in 1..Len(all) : all[i].src = nlines}

\* C20: when a write or a flush of a response raises, the worker does not
\* crash and the request gets at most one response line: a failure in the
\* empty-text path is not followed by a second, failure, line for the
\* request, and a failure of the final write does not end the process.
C20_WriteFailureTolerated ==
    Handled /\ (~last.w[1] \/ ~last.w[2]) =>
        /\ pc = "loop"
        /\ Cardinality(LinesOfLastRequest) <= 1

====
